---- MODULE Spec2Model ----
(***************************************************************************)
(* Model of src/src/filter/median.rs: the sliding-window median filter and *)
(* the alpha-trimmed mean filter built on Weiss' partial histograms.       *)
(*                                                                         *)
(* Indices are kept zero-based as in the Rust source; TLA+ sequences are   *)
(* one-based, so an access v[i] of the source is written v[i + 1].         *)
(***************************************************************************)
EXTENDS Integers, Sequences, FiniteSets, TLC

VARIABLES
    op,          \* which public function was called: "median" or "mean"
    input,       \* the borrowed input image
    radius,      \* argument radius
    alpha,       \* argument alpha (unused by the median filter)
    output,      \* the output image owned by the call (NoImage before Image::blank)
    histograms,  \* Vec<MedianHist> / Vec<MeanHist> of the strip being processed
    x,           \* origin column of the strip being processed
    y,           \* row j of the sweep of the strip
    pc,          \* position of the call
    result,      \* "none" while running, then "Ok", "InvalidArgError" or "panic"
    writes       \* the set_pixel calls of the last step:
                 \* <<strip column x+i, column written, row, pixel written>>

vars == <<op, input, radius, alpha, output, histograms, x, y, pc, result, writes>>

----------------------------------------------------------------------------
(* Bounds of the model and constants of the program *)

MaxKey == 255

\* the general images hold at most this many samples (width * height * channels)
MaxSamples == 4

\* the constant images are at most this wide and this high
MaxConstWidth == 6

MaxConstHeight == 2

\* the radii of the calls are 0..MaxRadius
MaxRadius == 2

\* the alphas of the calls are 0..MaxSmallAlpha and the two around size * size
MaxSmallAlpha == 4

----------------------------------------------------------------------------
(* Generic helpers *)

Min(a, b) == IF a < b THEN a ELSE b

Max(a, b) == IF a > b THEN a ELSE b

\* Ord::clamp; the caller checks lo <= hi (clamp panics otherwise)
Clamp(v, lo, hi) == Max(lo, Min(hi, v))

\* Vec::remove(index) for a zero-based index within bounds
RemoveAt(s, k) == [j \in 1..(Len(s) - 1) |-> IF j <= k THEN s[j] ELSE s[j + 1]]

\* Vec::insert(index, v) for a zero-based index <= len
InsertAt(s, k, v) ==
    [j \in 1..(Len(s) + 1) |-> IF j <= k THEN s[j] ELSE IF j = k + 1 THEN v ELSE s[j - 1]]

----------------------------------------------------------------------------
(* The raster: row-major, channel-interleaved bytes *)

NoImage == [width |-> 0, height |-> 0, channels |-> 0, data |-> <<>>]

\* Image::blank(info): same width, height and channel count, zeroed data
Blank(w, h, ch) ==
    [width |-> w, height |-> h, channels |-> ch, data |-> [k \in 1..(w * h * ch) |-> 0]]

\* Image::get_pixel_unchecked(x, y): the slice of `channels` bytes of the pixel
GetPixel(img, px, py) ==
    [c \in 1..img.channels |-> img.data[(py * img.width + px) * img.channels + c]]

\* Image::set_pixel(x, y, p) with p.len() = channels
SetPixel(img, px, py, p) ==
    [img EXCEPT !.data =
        [k \in 1..Len(img.data) |->
            LET base == (py * img.width + px) * img.channels
            IN  IF k > base /\ k <= base + img.channels THEN p[k - base] ELSE img.data[k]]]

\* an output with the sides exchanged
OutputTransposed(img) == Blank(img.height, img.width, img.channels)

\* `let mut output = Image::blank(input.info())` of both filters
OutputOf(img) == Blank(img.width, img.height, img.channels)

\* every channel reading the first channel's byte
PxFirst(p, i, c) == p[i + 1][1]

\* p[i][channel_index] of a row slice of pixels
Px(p, i, c) == p[i + 1][c + 1]

----------------------------------------------------------------------------
(* Strip width *)

\* floor(4 * r^(2/3)) = the largest n with n^3 <= 64 * r^2
RECURSIVE FloorRoot(_, _)
FloorRoot(t, n) == IF (n + 1) * (n + 1) * (n + 1) <= t THEN FloorRoot(t, n + 1) ELSE n

NColsFor(r) ==
    LET n == FloorRoot(64 * r * r, 0)
    IN  IF n % 2 = 0 THEN n + 1 ELSE n

\* the row slice p_in / p_out of the strip at origin sx: columns sx-r .. sx+n_cols+r-1, clamped
RowSlice(img, r, n_cols, sx, row) ==
    [k \in 1..(n_cols + 2 * r) |->
        GetPixel(img, Clamp(sx - r + k - 1, 0, img.width - 1), row)]

----------------------------------------------------------------------------
(* PartialHistograms *)

\* A histogram [i32; 256] is held as the map of its non-zero bins: a key outside the
\* map's domain has count 0.
ZeroHist == [k \in {} |-> 0]

Bin(h, key) == IF key \in DOMAIN h THEN h[key] ELSE 0

PHNew(r, n_cols) ==
    [data |-> [n \in 0..(n_cols - 1) |-> ZeroHist],
     n_cols |-> n_cols, n_half |-> n_cols \div 2, radius |-> r, size |-> 2 * r + 1]

\* self.data[n][key] += inc
Bump(d, n, key, inc) ==
    LET h == d[n]
        new == Bin(h, key) + inc
    IN  [d EXCEPT ![n] = IF new = 0
                         THEN [k \in DOMAIN h \ {key} |-> h[k]]
                         ELSE [k \in DOMAIN h \cup {key} |-> IF k = key THEN new ELSE h[k]]]

\* inner loop `for i in n..self.n_half` of PartialHistograms::update
RECURSIVE PHUpdateInner(_, _, _, _, _, _)
PHUpdateInner(ph, d, p, c, inc, ni) ==
    LET n == ni[1]
        i == ni[2]
        n_upper == ph.n_cols - n - 1
        i_upper == ph.n_cols + 2 * ph.radius - i - 1
        i_lower == i_upper - ph.size
        d1 == Bump(d, n, Px(p, i, c), inc)
        d2 == Bump(d1, n, Px(p, i + ph.size, c), -inc)
        d3 == Bump(d2, n_upper, Px(p, i_lower, c), -inc)
        d4 == Bump(d3, n_upper, Px(p, i_upper, c), inc)
    IN  IF i >= ph.n_half THEN d ELSE PHUpdateInner(ph, d4, p, c, inc, <<n, i + 1>>)

\* outer loop `for n in 0..self.n_half`
RECURSIVE PHUpdateOuter(_, _, _, _, _, _)
PHUpdateOuter(ph, d, p, c, inc, n) ==
    IF n >= ph.n_half THEN d
    ELSE PHUpdateOuter(ph, PHUpdateInner(ph, d, p, c, inc, <<n, n>>), p, c, inc, n + 1)

\* loop `for i in self.n_half..(self.n_half + self.size)` on the central histogram
RECURSIVE PHUpdateCentral(_, _, _, _, _, _)
PHUpdateCentral(ph, d, p, c, inc, i) ==
    IF i >= ph.n_half + ph.size THEN d
    ELSE PHUpdateCentral(ph, Bump(d, ph.n_half, Px(p, i, c), inc), p, c, inc, i + 1)

\* a leaving row counted like an entering one
PHUpdateAddOnly(ph, p, c, add) ==
    [ph EXCEPT !.data = PHUpdateCentral(ph, PHUpdateOuter(ph, ph.data, p, c, 1, 0), p, c, 1, ph.n_half)]

\* PartialHistograms::update
PHUpdate(ph, p, c, add) ==
    LET inc == IF add THEN 1 ELSE -1
        d1 == PHUpdateOuter(ph, ph.data, p, c, inc, 0)
    IN  [ph EXCEPT !.data = PHUpdateCentral(ph, d1, p, c, inc, ph.n_half)]

\* the count of the column's own histogram alone
GetCountOwn(ph, key, index) == Bin(ph.data[index], key)

\* PartialHistograms::get_count
GetCount(ph, key, index) ==
    IF index # ph.n_half
    THEN Bin(ph.data[ph.n_half], key) + Bin(ph.data[index], key)
    ELSE Bin(ph.data[ph.n_half], key)

\* no key of lo..hi has a non-zero bin in the histograms get_count reads for column index
NoBin(ph, index, lo, hi) ==
    \A k \in DOMAIN ph.data[ph.n_half] \cup DOMAIN ph.data[index] : k < lo \/ k > hi

----------------------------------------------------------------------------
(* Median filter: MedianHist *)

\* MedianHist::new: pivots is an empty Vec until init_pivots
MedianHistNew(r, n_cols) ==
    [data |-> PHNew(r, n_cols), sums |-> [k \in 1..n_cols |-> 0], pivots |-> <<>>]

\* the samples equal to the pivot counted as below it
RECURSIVE MedSumDeltaInclusive(_, _, _, _, _, _)
MedSumDeltaInclusive(h, p, c, inc, n, i) ==
    IF i >= n + h.data.size THEN 0
    ELSE (IF Px(p, i, c) <= h.pivots[n + 1] THEN inc ELSE 0)
         + MedSumDeltaInclusive(h, p, c, inc, n, i + 1)

\* loop `for i in n..(n + size)` of MedianHist::update: the change of sums[n]
RECURSIVE MedSumDelta(_, _, _, _, _, _)
MedSumDelta(h, p, c, inc, n, i) ==
    IF i >= n + h.data.size THEN 0
    ELSE (IF Px(p, i, c) < h.pivots[n + 1] THEN inc ELSE 0)
         + MedSumDelta(h, p, c, inc, n, i + 1)

\* the first statement of MedianHist::update: `self.data.update(p_in, channel_index, add)`
MedianHistData(h, p, c, add) == [h EXCEPT !.data = PHUpdate(h.data, p, c, add)]

\* sums counted anew from the bank
MedianHistSumsRecount(h, p, c, add) ==
    IF h.pivots # <<>>
    THEN [h EXCEPT !.sums =
             [k \in 1..Len(h.sums) |->
                 LET below == {v \in DOMAIN h.data.data[h.data.n_half] \cup DOMAIN h.data.data[k - 1] :
                                  v < h.pivots[k]}
                     Total[S \in SUBSET below] ==
                         IF S = {} THEN 0
                         ELSE LET v == CHOOSE v \in S : TRUE
                              IN  GetCount(h.data, v, k - 1) + Total[S \ {v}]
                 IN  Total[below]]]
    ELSE h

\* the rest of MedianHist::update: `// Update sums`
MedianHistSums(h, p, c, add) ==
    IF h.pivots # <<>>
    THEN [h EXCEPT !.sums = [k \in 1..Len(h.sums) |->
                                h.sums[k] + MedSumDelta(h, p, c, IF add THEN 1 ELSE -1, k - 1, k - 1)]]
    ELSE h

\* MedianHist::update: the bank takes the row, then the sums are adjusted
MedianHistUpdate(h, p, c, add) == MedianHistSums(MedianHistData(h, p, c, add), p, c, add)

\* add_row_med / remove_row_med: every channel's histogram takes the row
RowMed(hs, p, add) == [c \in 1..Len(hs) |-> MedianHistUpdate(hs[c], p, c - 1, add)]

\* rank of the median in the window: center = size * size / 2 + 1
Center(r) == ((2 * r + 1) * (2 * r + 1)) \div 2 + 1

\* the break taken at `sum + add > center`
StepUpStrict(ph, i, key, sum, center) ==
    LET add == GetCount(ph, key, i)
    IN  IF sum + add > center
        THEN [found |-> TRUE, key |-> key, sum |-> sum]
        ELSE [found |-> FALSE, key |-> 0, sum |-> sum + add]

\* One iteration of `for key in from..=255` of init_cols_med / process_row_med: the key is
\* pushed and the sum before it stored by set_sum, or the sum takes the key's count
StepUp(ph, i, key, sum, center) ==
    LET add == GetCount(ph, key, i)
    IN  IF sum + add >= center
        THEN [found |-> TRUE, key |-> key, sum |-> sum]
        ELSE [found |-> FALSE, key |-> 0, sum |-> sum + add]

\* The iterations lo..=hi of that loop, in ascending order, up to its `break`; found = FALSE
\* when the range ends without a push.  The range is halved to keep the evaluation shallow,
\* and a range of empty bins entered with sum < center is passed over: each of its
\* iterations has add = 0, does not break and leaves sum as it is.
RECURSIVE ScanUp(_, _, _, _, _, _)
ScanUp(ph, i, lo, hi, sum, center) ==
    IF lo > hi \/ (sum < center /\ NoBin(ph, i, lo, hi))
    THEN [found |-> FALSE, key |-> 0, sum |-> sum]
    ELSE IF lo = hi THEN StepUp(ph, i, lo, sum, center)
    ELSE LET mid == (lo + hi) \div 2
             left == ScanUp(ph, i, lo, mid, sum, center)
         IN  IF left.found THEN left ELSE ScanUp(ph, i, mid + 1, hi, left.sum, center)

\* One iteration of `for key in (0..pivot).rev()` of process_row_med
StepDown(ph, i, key, sum, center) ==
    LET s == sum - GetCount(ph, key, i)
    IN  [found |-> s < center, key |-> IF s < center THEN key ELSE 0, sum |-> s]

\* The iterations hi, hi-1, .., lo of that loop, in descending order, up to its `break`;
\* a range of empty bins entered with sum >= center is passed over likewise
RECURSIVE ScanDown(_, _, _, _, _, _)
ScanDown(ph, i, lo, hi, sum, center) ==
    IF lo > hi \/ (sum >= center /\ NoBin(ph, i, lo, hi))
    THEN [found |-> FALSE, key |-> 0, sum |-> sum]
    ELSE IF lo = hi THEN StepDown(ph, i, lo, sum, center)
    ELSE LET mid == (lo + hi) \div 2
             right == ScanDown(ph, i, mid + 1, hi, sum, center)
         IN  IF right.found THEN right ELSE ScanDown(ph, i, lo, mid, right.sum, center)

\* the search scanning upward also when the sum is at the center
PivotScanUpAtCenter(h, i, center) ==
    LET pivot == h.pivots[i + 1]
        sum == h.sums[i + 1]
    IN  IF sum <= center
        THEN ScanUp(h.data, i, pivot, MaxKey, sum, center)
        ELSE ScanDown(h.data, i, 0, pivot - 1, sum, center)

\* the search of process_row_med for one channel and column
PivotScan(h, i, center) ==
    LET pivot == h.pivots[i + 1]
        sum == h.sums[i + 1]
    IN  IF sum < center
        THEN ScanUp(h.data, i, pivot, MaxKey, sum, center)
        ELSE ScanDown(h.data, i, 0, pivot - 1, sum, center)

\* the search of init_cols_med for one channel and column
FirstScan(h, i, center) == ScanUp(h.data, i, 0, MaxKey, 0, center)

\* set_sum after a successful search
AfterScan(h, i, res) == IF res.found THEN [h EXCEPT !.sums[i + 1] = res.sum] ELSE h

\* p_out of one column: the keys pushed, in channel order
RECURSIVE POut(_, _)
POut(res, c) ==
    IF c > Len(res) THEN <<>>
    ELSE (IF res[c].found THEN <<res[c].key>> ELSE <<>>) \o POut(res, c + 1)

\* set_pivots_med: `for c in 0..pivots.len()`
SetPivotsMed(hs, pivots, index) ==
    [c \in 1..Len(hs) |->
        IF c <= Len(pivots) THEN [hs[c] EXCEPT !.pivots[index + 1] = pivots[c]] ELSE hs[c]]

\* a strip column beyond the width wrapping round to the first columns
XClampWrap(sx, i, width) == (sx + i) % width

\* the column written for strip column i: (x + i).clamp(0, width - 1)
XClamp(sx, i, width) == Clamp(sx + i, 0, width - 1)

\* The end of one column of init_cols_med / process_row_med, res the searches of the
\* channels: set_sum, then set_pixel and set_pivots_med with the keys pushed.
\* st = [hs, out, ok, wr]; ok turns FALSE when p_out has not one key for each channel.
ColumnMedWrite(st, res, p_out, sx, row, i) ==
    IF Len(p_out) # st.out.channels
    THEN [st EXCEPT !.hs = [c \in 1..Len(st.hs) |-> AfterScan(st.hs[c], i, res[c])],
                    !.ok = FALSE]
    ELSE [hs |-> SetPivotsMed([c \in 1..Len(st.hs) |-> AfterScan(st.hs[c], i, res[c])], p_out, i),
          out |-> SetPixel(st.out, XClamp(sx, i, st.out.width), row, p_out),
          ok |-> TRUE,
          wr |-> st.wr \cup {<<sx + i, XClamp(sx, i, st.out.width), row, p_out>>}]

ColumnMedRes(st, res, sx, row, i) == ColumnMedWrite(st, res, POut(res, 1), sx, row, i)

\* One column of init_cols_med (first = TRUE) or process_row_med: search every channel,
\* write the pixel, set the pivots
ColumnMed(st, first, center, sx, row, i) ==
    IF ~st.ok THEN st
    ELSE ColumnMedRes(st,
                      [c \in 1..Len(st.hs) |->
                          IF first THEN FirstScan(st.hs[c], i, center)
                          ELSE PivotScan(st.hs[c], i, center)],
                      sx, row, i)

\* `for i in 0..n_cols` of init_cols_med / process_row_med
RECURSIVE ColumnsMed(_, _, _, _, _, _, _)
ColumnsMed(st, first, center, n_cols, sx, row, i) ==
    IF i >= n_cols THEN st
    ELSE ColumnsMed(ColumnMed(st, first, center, sx, row, i), first, center, n_cols, sx, row, i + 1)

\* the priming rows of init_cols_med: j = -radius .. radius, clamped
RECURSIVE PrimeRowsMed(_, _, _, _, _, _)
PrimeRowsMed(hs, img, r, n_cols, sx, j) ==
    IF j > r THEN hs
    ELSE PrimeRowsMed(RowMed(hs, RowSlice(img, r, n_cols, sx, Clamp(j, 0, img.height - 1)), TRUE),
                      img, r, n_cols, sx, j + 1)

\* MedianHist::init_pivots for every channel
InitPivots(hs, n_cols) == [c \in 1..Len(hs) |-> [hs[c] EXCEPT !.pivots = [k \in 1..n_cols |-> 0]]]

\* init_cols_med
InitColsMedOp(img, out, r, n_cols, sx) ==
    ColumnsMed([hs |-> InitPivots(PrimeRowsMed([c \in 1..img.channels |-> MedianHistNew(r, n_cols)],
                                               img, r, n_cols, sx, -r),
                                  n_cols),
                out |-> out, ok |-> TRUE, wr |-> {}],
               TRUE, Center(r), n_cols, sx, 0, 0)

\* rows entering and leaving the window at row j of process_cols_med / process_cols_mean
JIn(j, r, height) == Clamp(j + r, 0, height - 1)

JOut(j, r, height) == Clamp(j - r - 1, 0, height - 1)

----------------------------------------------------------------------------
(* Alpha-trimmed mean filter: MeanHist *)

\* MeanHist::new: sums, lower and upper are empty Vecs until init.  The fields panicked and
\* unspecified are not fields of the struct: they record that an operation on the engine
\* panicked (index, remove or insert out of bounds), or took a step whose outcome the
\* toolchain decides (a binary search of a Vec that is not sorted for the comparator, the
\* u8 overflow of lower + 1); the engine is left alone from then on.
MeanHistNew(r, n_cols, a) ==
    [data |-> PHNew(r, n_cols), sums |-> <<>>, lower |-> <<>>, upper |-> <<>>,
     trim |-> a \div 2, len |-> (2 * r + 1) * (2 * r + 1) - a,
     panicked |-> FALSE, unspecified |-> FALSE]

\* MeanHist::init
MeanHistInit(h) ==
    [h EXCEPT !.sums = [k \in 1..h.data.n_cols |-> 0],
              !.lower = [k \in 1..h.data.n_cols |-> <<>>],
              !.upper = [k \in 1..h.data.n_cols |-> <<>>]]

\* the quotient cut off instead of rounded
GetMeanFloor(h, index) ==
    LET sum == h.sums[index + 1]
    IN  IF sum < 0 THEN 0 ELSE Min(MaxKey, sum \div h.len)

\* MeanHist::get_mean: f32 round (half away from zero), then the saturating cast to u8
GetMean(h, index) ==
    LET sum == h.sums[index + 1]
    IN  IF sum < 0 THEN 0 ELSE Min(MaxKey, (2 * sum + h.len) \div (2 * h.len))

\* MeanHist::lower / MeanHist::upper index their Vec at trim - 1
PivotInBounds(h, n) ==
    /\ h.trim >= 1
    /\ Len(h.lower[n + 1]) >= h.trim
    /\ Len(h.upper[n + 1]) >= h.trim

\* slice::binary_search(&val) on an ascending Vec (rev = FALSE) and
\* slice::binary_search_by_key(&Reverse(&val), Reverse) (rev = TRUE): hit = Ok, pos the index.
\* sorted says that the Vec is partitioned as the comparator expects, with at most one
\* match; otherwise the index returned is the toolchain's choice.
BinarySearch(s, val, rev) ==
    LET less(e) == IF rev THEN e > val ELSE e < val
        Less == {k \in 1..Len(s) : less(s[k])}
        Equal == {k \in 1..Len(s) : s[k] = val}
    IN  [hit |-> Equal # {},
         pos |-> Cardinality(Less),
         sorted |-> /\ \A k \in Less : \A j \in 1..(k - 1) : j \in Less
                    /\ \A k \in Equal : \A j \in 1..(k - 1) : j \in Less \cup Equal
                    /\ Cardinality(Equal) <= 1,
         partitioned |-> /\ \A k \in Less : \A j \in 1..(k - 1) : j \in Less
                         /\ \A k \in Equal : \A j \in 1..(k - 1) : j \in Less \cup Equal]

\* the branch `val < lower` of the insertion, pos the binary search of the cut Vec
InsertLower(h, n, val, lo, lowerCut, pos) ==
    IF ~pos.partitioned THEN [h EXCEPT !.unspecified = TRUE]
    ELSE [h EXCEPT !.lower[n + 1] = InsertAt(lowerCut, pos.pos, val), !.sums[n + 1] = @ + lo]

\* the sample credited to the sum in place of the pivot it displaces
InsertUpperCreditVal(h, n, val, up, upperCut, pos) ==
    IF ~pos.sorted THEN [h EXCEPT !.unspecified = TRUE]
    ELSE IF pos.pos > Len(upperCut) THEN [h EXCEPT !.panicked = TRUE]
    ELSE [h EXCEPT !.upper[n + 1] = InsertAt(upperCut, pos.pos, val), !.sums[n + 1] = @ + val]

\* the branch `val > upper` of the insertion, pos the binary search of self.lower[n]
InsertUpper(h, n, val, up, upperCut, pos) ==
    IF ~pos.sorted THEN [h EXCEPT !.unspecified = TRUE]
    ELSE IF pos.pos > Len(upperCut) THEN [h EXCEPT !.panicked = TRUE]
    ELSE [h EXCEPT !.upper[n + 1] = InsertAt(upperCut, pos.pos, val), !.sums[n + 1] = @ + up]

\* the branches of the insertion, lo and up the pivots self.lower(n) and self.upper(n)
InsertSample(h, n, val, lo, up) ==
    IF val < lo
    THEN InsertLower(h, n, val, lo, RemoveAt(h.lower[n + 1], h.trim - 1),
                     BinarySearch(RemoveAt(h.lower[n + 1], h.trim - 1), val, FALSE))
    ELSE IF val > up
    THEN InsertUpper(h, n, val, up, RemoveAt(h.upper[n + 1], h.trim - 1),
                     BinarySearch(h.lower[n + 1], val, TRUE))
    ELSE [h EXCEPT !.sums[n + 1] = @ + val]

\* One sample of the insertion loop of MeanHist::update (add = true), for column n
MeanInsert(h, n, val) ==
    IF h.panicked \/ h.unspecified THEN h
    ELSE IF ~PivotInBounds(h, n) THEN [h EXCEPT !.panicked = TRUE]
    ELSE InsertSample(h, n, val, h.lower[n + 1][h.trim], h.upper[n + 1][h.trim])

\* `for key in (lower + 1)..=255` of get_next_lower: the first key of lo..hi with a count
RECURSIVE FirstKeyUp(_, _, _, _)
FirstKeyUp(ph, n, lo, hi) ==
    IF lo > hi \/ NoBin(ph, n, lo, hi) THEN -1
    ELSE IF lo = hi THEN (IF GetCount(ph, lo, n) > 0 THEN lo ELSE -1)
    ELSE LET mid == (lo + hi) \div 2
             left == FirstKeyUp(ph, n, lo, mid)
         IN  IF left >= 0 THEN left ELSE FirstKeyUp(ph, n, mid + 1, hi)

\* `for key in (0..upper).rev()` of get_next_upper: the last key of lo..hi with a count
RECURSIVE FirstKeyDown(_, _, _, _)
FirstKeyDown(ph, n, lo, hi) ==
    IF lo > hi \/ NoBin(ph, n, lo, hi) THEN -1
    ELSE IF lo = hi THEN (IF GetCount(ph, lo, n) > 0 THEN lo ELSE -1)
    ELSE LET mid == (lo + hi) \div 2
             right == FirstKeyDown(ph, n, mid + 1, hi)
         IN  IF right >= 0 THEN right ELSE FirstKeyDown(ph, n, lo, mid)

\* get_next_lower, key the first key above lower with a count (-1: none)
NextLower(h, n, lower_count, lo, key) ==
    IF lower_count > 0
    THEN [h EXCEPT !.lower[n + 1] = Append(@, lo), !.sums[n + 1] = @ - lo]
    ELSE IF lo + 1 > MaxKey THEN [h EXCEPT !.unspecified = TRUE]
    ELSE IF key >= 0
    THEN [h EXCEPT !.lower[n + 1] = Append(@, key), !.sums[n + 1] = @ - key]
    ELSE h

\* MeanHist::get_next_lower
GetNextLower(h, n, lower_count, lo) ==
    NextLower(h, n, lower_count, lo, FirstKeyUp(h.data, n, lo + 1, MaxKey))

\* get_next_upper, key the last key below upper with a count (-1: none)
NextUpper(h, n, upper_count, up, key) ==
    IF upper_count > 0
    THEN [h EXCEPT !.upper[n + 1] = Append(@, up), !.sums[n + 1] = @ - up]
    ELSE IF key >= 0
    THEN [h EXCEPT !.upper[n + 1] = Append(@, key), !.sums[n + 1] = @ - key]
    ELSE h

\* MeanHist::get_next_upper
GetNextUpper(h, n, upper_count, up) ==
    NextUpper(h, n, upper_count, up, FirstKeyDown(h.data, n, 0, up - 1))

\* the number of entries equal to v at the end of a Vec: `for j in vec.iter().rev()`
RECURSIVE TrailingRun(_, _, _)
TrailingRun(s, v, k) == IF k >= 1 /\ s[k] = v THEN 1 + TrailingRun(s, v, k - 1) ELSE 0

\* lower_count of the removal: the count of the pivot lo in the window, the copies in the
\* rest of the row added, those at the end of self.lower[n] taken off
LowerCount(h, p, c, n, i, lo) ==
    GetCount(h.data, lo, n)
    + Cardinality({j \in i..(n + h.data.size - 1) : Px(p, j, c) = lo})
    - TrailingRun(h.lower[n + 1], lo, Len(h.lower[n + 1]))

\* upper_count likewise; a sample equal to both pivots counts for lower_count only
UpperCount(h, p, c, n, i, lo, up) ==
    GetCount(h.data, up, n)
    + Cardinality({j \in i..(n + h.data.size - 1) : Px(p, j, c) # lo /\ Px(p, j, c) = up})
    - TrailingRun(h.upper[n + 1], up, Len(h.upper[n + 1]))

\* the branch `val < lower` of the removal, res the binary search of self.lower[n]
RemoveLower(h, n, val, lo, lower_count, res) ==
    IF ~res.partitioned THEN [h EXCEPT !.unspecified = TRUE]
    ELSE IF res.hit
    THEN GetNextLower([h EXCEPT !.lower[n + 1] = RemoveAt(@, res.pos)], n, lower_count, lo)
    ELSE [h EXCEPT !.sums[n + 1] = @ - val]

\* the branch `val > upper` of the removal, res the binary search of self.lower[n]
RemoveUpper(h, n, val, up, upper_count, res) ==
    IF ~res.sorted THEN [h EXCEPT !.unspecified = TRUE]
    ELSE IF res.hit
    THEN IF res.pos >= Len(h.upper[n + 1]) THEN [h EXCEPT !.panicked = TRUE]
         ELSE GetNextUpper([h EXCEPT !.upper[n + 1] = RemoveAt(@, res.pos)], n, upper_count, up)
    ELSE [h EXCEPT !.sums[n + 1] = @ - val]

\* the branches of the removal
RemoveSample(h, n, val, lo, up, lower_count, upper_count) ==
    IF val = lo /\ lower_count = 0
    THEN GetNextLower([h EXCEPT !.lower[n + 1] = RemoveAt(@, h.trim - 1)], n, lower_count, lo)
    ELSE IF val < lo
    THEN RemoveLower(h, n, val, lo, lower_count, BinarySearch(h.lower[n + 1], val, FALSE))
    ELSE IF val = up /\ upper_count = 0
    THEN GetNextUpper([h EXCEPT !.upper[n + 1] = RemoveAt(@, h.trim - 1)], n, upper_count, up)
    ELSE IF val > up
    THEN RemoveUpper(h, n, val, up, upper_count, BinarySearch(h.lower[n + 1], val, TRUE))
    ELSE [h EXCEPT !.sums[n + 1] = @ - val]

\* the counts of the removal, lo and up the pivots self.lower(n) and self.upper(n)
RemoveCounted(h, p, c, n, i, lo, up) ==
    RemoveSample(h, n, Px(p, i, c), lo, up,
                 LowerCount(h, p, c, n, i, lo), UpperCount(h, p, c, n, i, lo, up))

\* One sample (offset i of the row) of the removal loop of MeanHist::update (add = false),
\* for column n; the partial histograms have taken the row already
MeanRemove(h, p, c, n, i) ==
    IF h.panicked \/ h.unspecified THEN h
    ELSE IF ~PivotInBounds(h, n) THEN [h EXCEPT !.panicked = TRUE]
    ELSE RemoveCounted(h, p, c, n, i, h.lower[n + 1][h.trim], h.upper[n + 1][h.trim])

\* one sample of the loops of MeanHist::update: sample k = n * size + (i - n)
MeanSample(h, p, c, add, n, i) ==
    IF add THEN MeanInsert(h, n, Px(p, i, c)) ELSE MeanRemove(h, p, c, n, i)

\* the loops `for n in 0..n_cols { for i in n..(n + size) {..} }` of MeanHist::update,
\* from sample k on
RECURSIVE MeanSamples(_, _, _, _, _)
MeanSamples(h, p, c, add, k) ==
    IF k >= h.data.n_cols * h.data.size THEN h
    ELSE MeanSamples(MeanSample(h, p, c, add, k \div h.data.size,
                                (k \div h.data.size) + (k % h.data.size)),
                     p, c, add, k + 1)

\* the partial histograms take the row: after the samples of an entering row (unless one
\* panicked), before the samples of a leaving row
MeanData(h, p, c, add) ==
    IF h.panicked \/ h.unspecified THEN h ELSE [h EXCEPT !.data = PHUpdate(h.data, p, c, add)]

\* MeanHist::update
MeanHistUpdate(h, p, c, add) ==
    IF h.sums = <<>> THEN MeanData(h, p, c, add)
    ELSE IF add THEN MeanData(MeanSamples(h, p, c, TRUE, 0), p, c, TRUE)
    ELSE MeanSamples(MeanData(h, p, c, FALSE), p, c, FALSE, 0)

\* add_row_mean / remove_row_mean: `for c in 0..channels`; a panic in one channel ends the call
RECURSIVE RowMeanFrom(_, _, _, _)
RowMeanFrom(hs, p, add, c) ==
    IF c > Len(hs) \/ (c > 1 /\ (hs[c - 1].panicked \/ hs[c - 1].unspecified)) THEN hs
    ELSE RowMeanFrom([hs EXCEPT ![c] = MeanHistUpdate(hs[c], p, c - 1, add)], p, add, c + 1)

RowMean(hs, p, add) == RowMeanFrom(hs, p, add, 1)

Panicked(hs) == \E c \in 1..Len(hs) : hs[c].panicked

Unspecified(hs) == \E c \in 1..Len(hs) : hs[c].unspecified

\* the `while` loops of one key of the priming scan of init_cols_mean; st = [count, sum,
\* lower, upper], add the key's count left to place
RECURSIVE PrimeWhile(_, _, _, _, _)
PrimeWhile(st, key, add, trim, upper_trim) ==
    IF Len(st.lower) < trim /\ add > 0
    THEN PrimeWhile([st EXCEPT !.lower = Append(@, key), !.sum = @ - key],
                    key, add - 1, trim, upper_trim)
    ELSE IF st.count > upper_trim /\ Len(st.upper) < trim /\ add > 0
    THEN PrimeWhile([st EXCEPT !.upper = <<key>> \o @, !.sum = @ - key],
                    key, add - 1, trim, upper_trim)
    ELSE st

\* The iterations lo..=hi of `for key in 0u8..=255` of init_cols_mean.  A key of an empty
\* bin has add = 0 and its iteration changes nothing: a range of empty bins is passed over.
RECURSIVE PrimeScan(_, _, _, _, _, _, _)
PrimeScan(st, ph, i, lo, hi, trim, upper_trim) ==
    IF lo > hi \/ NoBin(ph, i, lo, hi) THEN st
    ELSE IF lo = hi
    THEN PrimeWhile([st EXCEPT !.count = @ + GetCount(ph, lo, i),
                               !.sum = @ + GetCount(ph, lo, i) * lo],
                    lo, GetCount(ph, lo, i), trim, upper_trim)
    ELSE PrimeScan(PrimeScan(st, ph, i, lo, (lo + hi) \div 2, trim, upper_trim),
                   ph, i, (lo + hi) \div 2 + 1, hi, trim, upper_trim)

\* set_sum, set_upper, set_lower of column i after the priming scan
PrimeSet(h, i, st) ==
    [h EXCEPT !.sums[i + 1] = st.sum, !.upper[i + 1] = st.upper, !.lower[i + 1] = st.lower]

\* the priming scan of column i: trim = alpha / 2, upper_trim = size * size - trim
PrimeColumn(h, i, a) ==
    PrimeSet(h, i, PrimeScan([count |-> 0, sum |-> 0, lower |-> <<>>, upper |-> <<>>],
                             h.data, i, 0, MaxKey,
                             a \div 2, h.data.size * h.data.size - a \div 2))

\* set_pixel of one column of init_cols_mean / process_row_mean with the means of the channels
ColumnMeanWrite(st, hs, sx, row, i) ==
    [hs |-> hs,
     out |-> SetPixel(st.out, XClamp(sx, i, st.out.width), row,
                      [c \in 1..Len(hs) |-> GetMean(hs[c], i)]),
     wr |-> st.wr \cup {<<sx + i, XClamp(sx, i, st.out.width), row,
                          [c \in 1..Len(hs) |-> GetMean(hs[c], i)]>>}]

\* One column of init_cols_mean (first = TRUE: prime the column's sums and deques, then
\* write its mean) or of process_row_mean (write its mean).  st = [hs, out, wr].
ColumnMean(st, first, a, sx, row, i) ==
    ColumnMeanWrite(st,
                    IF first THEN [c \in 1..Len(st.hs) |-> PrimeColumn(st.hs[c], i, a)] ELSE st.hs,
                    sx, row, i)

\* `for i in 0..n_cols` of init_cols_mean / process_row_mean
RECURSIVE ColumnsMean(_, _, _, _, _, _, _)
ColumnsMean(st, first, a, n_cols, sx, row, i) ==
    IF i >= n_cols THEN st
    ELSE ColumnsMean(ColumnMean(st, first, a, sx, row, i), first, a, n_cols, sx, row, i + 1)

\* the priming rows of init_cols_mean: j = -radius .. radius, clamped
RECURSIVE PrimeRowsMean(_, _, _, _, _, _)
PrimeRowsMean(hs, img, r, n_cols, sx, j) ==
    IF j > r THEN hs
    ELSE PrimeRowsMean(RowMean(hs, RowSlice(img, r, n_cols, sx, Clamp(j, 0, img.height - 1)), TRUE),
                       img, r, n_cols, sx, j + 1)

\* init_cols_mean
MeanInit(hs) == [c \in 1..Len(hs) |-> MeanHistInit(hs[c])]

InitColsMeanOp(img, out, r, a, n_cols, sx) ==
    ColumnsMean([hs |-> MeanInit(PrimeRowsMean([c \in 1..img.channels |-> MeanHistNew(r, n_cols, a)],
                                               img, r, n_cols, sx, -r)),
                 out |-> out, wr |-> {}],
                TRUE, a, n_cols, sx, 0, 0)

----------------------------------------------------------------------------
(* The filters as functions of their arguments, n_cols left open *)

\* `for j in 1..height` of process_cols_med from row j on: add_row_med, remove_row_med,
\* process_row_med.  st = [hs, out, ok, wr].
RECURSIVE RowsMed(_, _, _, _, _, _)
RowsMed(st, img, r, n_cols, sx, j) ==
    IF j >= img.height \/ ~st.ok THEN st
    ELSE RowsMed(ColumnsMed([st EXCEPT !.hs =
                                RowMed(RowMed(st.hs,
                                              RowSlice(img, r, n_cols, sx, JIn(j, r, img.height)),
                                              TRUE),
                                       RowSlice(img, r, n_cols, sx, JOut(j, r, img.height)),
                                       FALSE)],
                            FALSE, Center(r), n_cols, sx, j, 0),
                 img, r, n_cols, sx, j + 1)

\* process_cols_med
ProcessColsMed(img, out, r, n_cols, sx) ==
    RowsMed(InitColsMedOp(img, out, r, n_cols, sx), img, r, n_cols, sx, 1)

\* `for x in (0..width).step_by(n_cols)` of median_filter from strip origin sx on
RECURSIVE StripsMed(_, _, _, _, _)
StripsMed(res, img, r, n_cols, sx) ==
    IF sx >= img.width \/ res.status # "Ok" THEN res
    ELSE StripsMed(LET st == ProcessColsMed(img, res.out, r, n_cols, sx)
                   IN  [out |-> st.out, status |-> IF st.ok THEN "Ok" ELSE "panic"],
                   img, r, n_cols, sx + n_cols)

\* median_filter with the strip width n_cols: [out, status]
MedianFilterWith(img, r, n_cols) ==
    StripsMed([out |-> OutputOf(img), status |-> "Ok"], img, r, n_cols, 0)

\* how the engines of the mean filter stand
MeanStatus(hs) ==
    IF Panicked(hs) THEN "panic" ELSE IF Unspecified(hs) THEN "unspecified" ELSE "Ok"

\* process_row_mean after add_row_mean and remove_row_mean left the engines hs
RowMeanScan(st, hs, a, n_cols, sx, j) ==
    IF MeanStatus(hs) # "Ok" THEN [st EXCEPT !.hs = hs]
    ELSE ColumnsMean([st EXCEPT !.hs = hs], FALSE, a, n_cols, sx, j, 0)

\* remove_row_mean after add_row_mean left the engines hs
RowMeanRemove(st, hs, img, r, a, n_cols, sx, j) ==
    IF MeanStatus(hs) # "Ok" THEN [st EXCEPT !.hs = hs]
    ELSE RowMeanScan(st, RowMean(hs, RowSlice(img, r, n_cols, sx, JOut(j, r, img.height)), FALSE),
                     a, n_cols, sx, j)

\* `for j in 1..height` of process_cols_mean from row j on.  st = [hs, out, wr].
RECURSIVE RowsMean(_, _, _, _, _, _, _)
RowsMean(st, img, r, a, n_cols, sx, j) ==
    IF j >= img.height \/ MeanStatus(st.hs) # "Ok" THEN st
    ELSE RowsMean(RowMeanRemove(st,
                                RowMean(st.hs,
                                        RowSlice(img, r, n_cols, sx, JIn(j, r, img.height)),
                                        TRUE),
                                img, r, a, n_cols, sx, j),
                  img, r, a, n_cols, sx, j + 1)

\* process_cols_mean
ProcessColsMean(img, out, r, a, n_cols, sx) ==
    RowsMean(InitColsMeanOp(img, out, r, a, n_cols, sx), img, r, a, n_cols, sx, 1)

\* `for x in (0..width).step_by(n_cols)` of alpha_trimmed_mean_filter from strip origin sx on
RECURSIVE StripsMean(_, _, _, _, _, _)
StripsMean(res, img, r, a, n_cols, sx) ==
    IF sx >= img.width \/ res.status # "Ok" THEN res
    ELSE StripsMean(LET st == ProcessColsMean(img, res.out, r, a, n_cols, sx)
                    IN  [out |-> st.out, status |-> MeanStatus(st.hs)],
                    img, r, a, n_cols, sx + n_cols)

\* alpha_trimmed_mean_filter, its arguments valid, with the strip width n_cols: [out, status]
MeanFilterWith(img, r, a, n_cols) ==
    StripsMean([out |-> OutputOf(img), status |-> "Ok"], img, r, a, n_cols, 0)

----------------------------------------------------------------------------
(* The calls the model makes *)

\* sample values of the general images, and of the constant images
Vals == {0, 1, 2}

ConstVals == {0, 7, 255}

Radii == 0..MaxRadius

\* every image over Vals of at most MaxSamples samples and at most 4 channels
GeneralImages ==
    UNION {UNION {UNION {
        {[width |-> w, height |-> h, channels |-> ch, data |-> d] : d \in [1..(w * h * ch) -> Vals]}
        : ch \in 1..Min(4, MaxSamples \div (w * h))} : h \in 1..(MaxSamples \div w)} : w \in 1..MaxSamples}

\* the single-channel images of 3 columns and 2 rows over two values: as wide as the window
\* of radius 1 and narrower than its strip
WideImages ==
    {[width |-> 3, height |-> 2, channels |-> 1, data |-> d] : d \in [1..6 -> {0, 1}]}

\* the single-channel images of one value, up to MaxConstWidth x MaxConstHeight
ConstImages ==
    {[width |-> w, height |-> h, channels |-> 1, data |-> [k \in 1..(w * h) |-> v]] :
        w \in 1..MaxConstWidth, h \in 1..MaxConstHeight, v \in ConstVals}

\* the inputs of the scenarios: one row of five distinct values; 7 x 7, zero but for one 255
\* at the centre; the 4 x 4 checkerboards over {0, 255}
S1Image == [width |-> 5, height |-> 1, channels |-> 1, data |-> <<10, 20, 30, 40, 50>>]

S4Image ==
    [width |-> 7, height |-> 7, channels |-> 1, data |-> [k \in 1..49 |-> IF k = 25 THEN 255 ELSE 0]]

Checkerboard(corner) ==
    [width |-> 4, height |-> 4, channels |-> 1,
     data |-> [k \in 1..16 |->
                  IF (((k - 1) % 4) + ((k - 1) \div 4)) % 2 = 0 THEN corner ELSE 255 - corner]]

ScenarioImages == {S1Image, S4Image, Checkerboard(0), Checkerboard(255)}

Images == GeneralImages \cup WideImages \cup ConstImages \cup ScenarioImages

\* the alphas a caller passes with radius r: the small ones, even and odd, size * size - 1
\* (the largest valid one), size * size (the smallest one that is too large, odd) and
\* size * size + 1 (the smallest even one that is too large)
Alphas(r) ==
    LET size == 2 * r + 1
    IN  {a \in 0..(size * size + 1) : a <= MaxSmallAlpha \/ a >= size * size - 1}

Init ==
    /\ op \in {"median", "mean"}
    /\ input \in Images
    /\ radius \in Radii
    /\ alpha \in IF op = "mean" THEN Alphas(radius) ELSE {0}
    /\ output = NoImage
    /\ histograms = <<>>
    /\ x = 0
    /\ y = 0
    /\ pc = "call"
    /\ result = "none"
    /\ writes = {}

\* n_cols as median_filter and alpha_trimmed_mean_filter compute it
NCols == NColsFor(radius)

\* the end of a strip: `for x in (0..width).step_by(n_cols)` goes on, or the call returns Ok(output)
StripEnd ==
    /\ histograms' = <<>>
    /\ y' = 0
    /\ IF x + NCols < input.width
       THEN /\ x' = x + NCols
            /\ pc' = "strip"
            /\ result' = result
       ELSE /\ x' = x
            /\ pc' = "done"
            /\ result' = "Ok"

Panic ==
    /\ pc' = "panic"
    /\ result' = "panic"
    /\ UNCHANGED <<histograms, x, y>>

\* median_filter up to its loop over the strips
MedianFilterCall ==
    /\ pc = "call"
    /\ op = "median"
    /\ output' = OutputOf(input)
    /\ pc' = "strip"
    /\ writes' = {}
    /\ UNCHANGED <<op, input, radius, alpha, histograms, x, y, result>>

\* process_cols_med up to its loop over the rows: init_cols_med
InitColsMed ==
    /\ pc = "strip"
    /\ op = "median"
    /\ \E st \in {InitColsMedOp(input, output, radius, NCols, x)} :
           /\ output' = st.out
           /\ writes' = st.wr
           /\ IF ~st.ok THEN Panic
              ELSE IF 1 < input.height
              THEN /\ histograms' = st.hs
                   /\ y' = 1
                   /\ pc' = "add"
                   /\ UNCHANGED <<x, result>>
              ELSE StripEnd
    /\ UNCHANGED <<op, input, radius, alpha>>

\* add_row_med of row j of process_cols_med
AddRowMed ==
    /\ pc = "add"
    /\ op = "median"
    /\ histograms' = RowMed(histograms,
                            RowSlice(input, radius, NCols, x, JIn(y, radius, input.height)), TRUE)
    /\ pc' = "remove"
    /\ writes' = {}
    /\ UNCHANGED <<op, input, radius, alpha, output, x, y, result>>

\* remove_row_med of row j of process_cols_med
RemoveRowMed ==
    /\ pc = "remove"
    /\ op = "median"
    /\ histograms' = RowMed(histograms,
                            RowSlice(input, radius, NCols, x, JOut(y, radius, input.height)), FALSE)
    /\ pc' = "scan"
    /\ writes' = {}
    /\ UNCHANGED <<op, input, radius, alpha, output, x, y, result>>

\* process_row_med of row j of process_cols_med
ProcessRowMed ==
    /\ pc = "scan"
    /\ op = "median"
    /\ \E st \in {ColumnsMed([hs |-> histograms, out |-> output, ok |-> TRUE, wr |-> {}],
                             FALSE, Center(radius), NCols, x, y, 0)} :
           /\ output' = st.out
           /\ writes' = st.wr
           /\ IF ~st.ok THEN Panic
              ELSE IF y + 1 < input.height
              THEN /\ histograms' = st.hs
                   /\ y' = y + 1
                   /\ pc' = "add"
                   /\ UNCHANGED <<x, result>>
              ELSE StripEnd
    /\ UNCHANGED <<op, input, radius, alpha>>

\* error::check_even(alpha, "alpha")
CheckEven(a) == a % 2 = 0

\* the test left out
AlphaUnchecked(r, a) == TRUE

\* the test `alpha >= size * size` of alpha_trimmed_mean_filter, negated
AlphaInRange(r, a) == ~(a >= (2 * r + 1) * (2 * r + 1))

\* alpha_trimmed_mean_filter up to its loop over the strips
AlphaTrimmedMeanFilterCall ==
    /\ pc = "call"
    /\ op = "mean"
    /\ IF CheckEven(alpha) /\ AlphaInRange(radius, alpha)
       THEN /\ output' = OutputOf(input)
            /\ pc' = "strip"
            /\ result' = result
       ELSE /\ output' = output
            /\ pc' = "error"
            /\ result' = "InvalidArgError"
    /\ writes' = {}
    /\ UNCHANGED <<op, input, radius, alpha, histograms, x, y>>

\* how a step of the mean engine ends: the engines panicked, took a step the toolchain
\* decides, or the call goes on at `to`
MeanStep(hs, to) ==
    /\ histograms' = hs
    /\ IF Panicked(hs) THEN pc' = "panic" /\ result' = "panic"
       ELSE IF Unspecified(hs) THEN pc' = "unspecified" /\ result' = "unspecified"
       ELSE pc' = to /\ result' = result

\* process_cols_mean up to its loop over the rows: init_cols_mean
InitColsMean ==
    /\ pc = "strip"
    /\ op = "mean"
    /\ \E st \in {InitColsMeanOp(input, output, radius, alpha, NCols, x)} :
           /\ output' = st.out
           /\ writes' = st.wr
           /\ IF 1 < input.height
              THEN /\ histograms' = st.hs
                   /\ y' = 1
                   /\ pc' = "add"
                   /\ UNCHANGED <<x, result>>
              ELSE StripEnd
    /\ UNCHANGED <<op, input, radius, alpha>>

\* add_row_mean of row j of process_cols_mean
AddRowMean ==
    /\ pc = "add"
    /\ op = "mean"
    /\ MeanStep(RowMean(histograms,
                        RowSlice(input, radius, NCols, x, JIn(y, radius, input.height)), TRUE),
                "remove")
    /\ writes' = {}
    /\ UNCHANGED <<op, input, radius, alpha, output, x, y>>

\* remove_row_mean of row j of process_cols_mean
RemoveRowMean ==
    /\ pc = "remove"
    /\ op = "mean"
    /\ MeanStep(RowMean(histograms,
                        RowSlice(input, radius, NCols, x, JOut(y, radius, input.height)), FALSE),
                "scan")
    /\ writes' = {}
    /\ UNCHANGED <<op, input, radius, alpha, output, x, y>>

\* process_row_mean of row j of process_cols_mean
ProcessRowMean ==
    /\ pc = "scan"
    /\ op = "mean"
    /\ \E st \in {ColumnsMean([hs |-> histograms, out |-> output, wr |-> {}],
                              FALSE, alpha, NCols, x, y, 0)} :
           /\ output' = st.out
           /\ writes' = st.wr
           /\ IF y + 1 < input.height
              THEN /\ y' = y + 1
                   /\ pc' = "add"
                   /\ UNCHANGED <<histograms, x, result>>
              ELSE StripEnd
    /\ UNCHANGED <<op, input, radius, alpha>>

Next ==
    \/ MedianFilterCall
    \/ InitColsMed
    \/ AddRowMed
    \/ RemoveRowMed
    \/ ProcessRowMed
    \/ AlphaTrimmedMeanFilterCall
    \/ InitColsMean
    \/ AddRowMean
    \/ RemoveRowMean
    \/ ProcessRowMean

Spec == Init /\ [][Next]_vars

----------------------------------------------------------------------------
(* The reference the filters are held against: sort the window and pick *)

\* one sample of an image, the coordinates clamped to the edge
Sample(img, px, py, c) ==
    GetPixel(img, Clamp(px, 0, img.width - 1), Clamp(py, 0, img.height - 1))[c + 1]

\* the samples of channel c in the (2r+1) x (2r+1) window centred at (px, py), in sorted order
SortedWindow(img, r, px, py, c) ==
    SortSeq([k \in 1..((2 * r + 1) * (2 * r + 1)) |->
                Sample(img, px + ((k - 1) % (2 * r + 1)) - r, py + ((k - 1) \div (2 * r + 1)) - r, c)],
            LAMBDA a, b : a < b)

\* the value of rank floor(size^2 / 2) + 1
BruteMedian(img, r, px, py, c) ==
    SortedWindow(img, r, px, py, c)[((2 * r + 1) * (2 * r + 1)) \div 2 + 1]

RECURSIVE SumOf(_, _, _)
SumOf(s, lo, hi) == IF lo > hi THEN 0 ELSE s[lo] + SumOf(s, lo + 1, hi)

\* round(S / (size^2 - a)), S the sum left when the a/2 smallest and the a/2 largest are gone
BruteMean(img, r, a, px, py, c) ==
    LET n == (2 * r + 1) * (2 * r + 1)
        S == SumOf(SortedWindow(img, r, px, py, c), a \div 2 + 1, n - a \div 2)
    IN  (2 * S + (n - a)) \div (2 * (n - a))

\* the number of samples equal to v in that window
WindowCount(img, r, px, py, c, v) ==
    Cardinality({k \in 1..((2 * r + 1) * (2 * r + 1)) :
                    Sample(img, px + ((k - 1) % (2 * r + 1)) - r, py + ((k - 1) \div (2 * r + 1)) - r, c) = v})

\* the values of the samples of that window
WindowValues(img, r, px, py, c) ==
    {Sample(img, px + dx, py + dy, c) : dx \in (-r)..r, dy \in (-r)..r}

\* the row whose window the engines hold: at "add" the scan of row y - 1 (the priming for
\* y = 1) is the last step completed, at "scan" the row step of row y
WindowRow == IF pc = "add" THEN y - 1 ELSE y

\* the keys that column i of a bank or its window can count: every other key has no bin in
\* the two histograms get_count reads and no sample in the window
KeysOf(ph, i, c) ==
    DOMAIN ph.data[ph.n_half] \cup DOMAIN ph.data[i]
        \cup WindowValues(input, radius, x + i, WindowRow, c)

RECURSIVE SumCounts(_, _, _)
SumCounts(ph, i, keys) ==
    IF keys = {} THEN 0
    ELSE LET k == CHOOSE k \in keys : TRUE
         IN  GetCount(ph, k, i) + SumCounts(ph, i, keys \ {k})

\* the row slice of the add_row / remove_row about to run
UpdateRow ==
    RowSlice(input, radius, NCols, x,
             IF pc = "add" THEN JIn(y, radius, input.height) ELSE JOut(y, radius, input.height))

\* the strip origins of the call, x = 0, n_cols, 2 * n_cols, ..., and the columns of a strip
StripOrigins == {sx \in 0..(input.width - 1) : sx % NCols = 0}

StripColumns(sx) == {cx \in 0..(input.width - 1) : cx >= sx /\ cx < sx + NCols}

\* the strip of origin sx run on the output out
StripOn(out, sx) ==
    IF op = "median" THEN ProcessColsMed(input, out, radius, NCols, sx).out
    ELSE ProcessColsMean(input, out, radius, alpha, NCols, sx).out

\* the strips run from the last one back to the first
RECURSIVE StripsReversed(_, _)
StripsReversed(out, sx) ==
    IF sx < 0 THEN out ELSE StripsReversed(StripOn(out, sx), sx - NCols)

\* the returned output outside the columns of the strip of origin sx blanked
OutputOfStrip(sx) ==
    [output EXCEPT !.data =
        [k \in 1..Len(output.data) |->
            IF ((k - 1) \div output.channels) % output.width \in StripColumns(sx)
            THEN output.data[k] ELSE 0]]

Pixels(img) == (0..(img.width - 1)) \X (0..(img.height - 1)) \X (0..(img.channels - 1))

\* channel c of an image as an image of one channel
Channel(img, c) ==
    [width |-> img.width, height |-> img.height, channels |-> 1,
     data |-> [k \in 1..(img.width * img.height) |-> img.data[(k - 1) * img.channels + c + 1]]]

\* every channel holds one value
IsConstant(img) ==
    \A c \in 0..(img.channels - 1) : \A q \in Pixels(img) : Sample(img, q[1], q[2], c) = img.data[c + 1]

ValidAlpha == alpha % 2 = 0 /\ alpha < (2 * radius + 1) * (2 * radius + 1)

\* the image reflected left-right, and top-bottom
MirrorLR(img) ==
    [img EXCEPT !.data =
        [k \in 1..Len(img.data) |->
            LET px == ((k - 1) \div img.channels) % img.width
                py == ((k - 1) \div img.channels) \div img.width
            IN  img.data[(py * img.width + (img.width - 1 - px)) * img.channels
                         + ((k - 1) % img.channels) + 1]]]

MirrorTB(img) ==
    [img EXCEPT !.data =
        [k \in 1..Len(img.data) |->
            LET px == ((k - 1) \div img.channels) % img.width
                py == ((k - 1) \div img.channels) \div img.width
            IN  img.data[((img.height - 1 - py) * img.width + px) * img.channels
                         + ((k - 1) % img.channels) + 1]]]

\* the filter of the call as a function of the image: [out, status]
FilterOf(img) ==
    IF op = "median" THEN MedianFilterWith(img, radius, NCols)
    ELSE MeanFilterWith(img, radius, alpha, NCols)

----------------------------------------------------------------------------
(* Claims *)

\* C1: when median_filter has returned, for a radius of at least 1, every output sample
\* (x, y, c) is the brute-force median of its clamp-to-edge window, whatever the width.
MedianIsBruteForce ==
    (op = "median" /\ pc = "done" /\ radius >= 1) =>
        \A q \in Pixels(input) :
            Sample(output, q[1], q[2], q[3]) = BruteMedian(input, radius, q[1], q[2], q[3])

\* C2: when alpha_trimmed_mean_filter has returned, for a radius of at least 1 and a valid
\* alpha, every output sample is round(S / (size^2 - alpha)) of its clamp-to-edge window.
MeanIsBruteForce ==
    (op = "mean" /\ pc = "done" /\ radius >= 1) =>
        \A q \in Pixels(input) :
            Sample(output, q[1], q[2], q[3]) = BruteMean(input, radius, alpha, q[1], q[2], q[3])

\* C3: a call of alpha_trimmed_mean_filter with an odd alpha or with alpha >= (2r+1)^2 is
\* either not yet checked or has returned InvalidArgError; it never holds an output image,
\* never builds an engine and never writes a pixel (in particular radius 2 with alpha 25 or 3).
InvalidAlphaRejected ==
    (op = "mean" /\ ~ValidAlpha) =>
        /\ pc \in {"call", "error"}
        /\ pc = "error" <=> result = "InvalidArgError"
        /\ pc = "call" <=> result = "none"
        /\ output = NoImage
        /\ histograms = <<>>
        /\ writes = {}

InvalidAlphaWitness ==
    /\ op = "mean" /\ pc = "error" /\ result = "InvalidArgError"
    /\ radius = 2 /\ alpha \in {3, 25, 26}
    /\ input.height >= 2

\* C4: no call with a valid alpha (alpha = 0 included) reaches a panic.
NoPanic == pc # "panic"

\* C5: no set_pixel call is made for a strip column x + i at or beyond the width.
NoWriteBeyondWidth == \A w \in writes : w[1] < input.width

\* C6: once the output is allocated it has the width, height and channel count of the input,
\* and so when either filter returns it.
SameDimensions ==
    (pc \notin {"call", "error"}) =>
        /\ output.width = input.width
        /\ output.height = input.height
        /\ output.channels = input.channels
        /\ Len(output.data) = Len(input.data)

SameDimensionsWitness ==
    /\ op = "mean" /\ result = "Ok" /\ radius = 1
    /\ input.width = 2 /\ input.height = 1 /\ input.channels = 2
    /\ output.width = 2 /\ output.height = 1 /\ output.channels = 2

\* C7: for a constant-valued input and every valid alpha (alpha = 0 included) the call of
\* alpha_trimmed_mean_filter ends by returning an image equal to the input.
MeanConstIdentity ==
    (op = "mean" /\ IsConstant(input) /\ ValidAlpha /\ pc \in {"done", "panic", "unspecified"}) =>
        (pc = "done" /\ output = input)

\* C8: for a constant-valued input median_filter never panics and returns an image equal to
\* the input, also when the width is not a multiple of n_cols.
MedianConstIdentity ==
    (op = "median" /\ IsConstant(input)) =>
        /\ pc # "panic"
        /\ pc = "done" => output = input

MedianConstWitness ==
    /\ op = "median" /\ pc = "done" /\ IsConstant(input)
    /\ radius = 1 /\ input.width = 6 /\ input.height = 2 /\ input.data[1] = 255
    /\ output = input

\* C9: when either filter has returned for an input of several channels, channel c of the
\* output is the output of the same filter on channel c alone as a single-channel image.
ChannelIndependence ==
    (pc = "done" /\ input.channels >= 2) =>
        \A c \in 0..(input.channels - 1) :
            Channel(output, c) =
                IF op = "median"
                THEN MedianFilterWith(Channel(input, c), radius, NCols).out
                ELSE MeanFilterWith(Channel(input, c), radius, alpha, NCols).out

ChannelIndependenceWitness ==
    /\ op = "mean" /\ pc = "done" /\ radius = 1 /\ alpha = 2
    /\ input.channels = 2 /\ input.width = 2
    /\ Channel(input, 0) # Channel(input, 1)
    /\ Channel(output, 0) # Channel(output, 1)

\* C10: when median_filter has returned, its output is byte for byte the output of the same
\* strip driver run with n_cols = 1.
StripWidthEquivalence ==
    (op = "median" /\ pc = "done") => output = MedianFilterWith(input, radius, 1).out

\* C11: when either filter has returned, the same filter applied to the left-right mirror of
\* the input returns the left-right mirror of the output, and likewise top-bottom.
MirrorCommutes ==
    (pc = "done") =>
        /\ FilterOf(MirrorLR(input)) = [out |-> MirrorLR(output), status |-> "Ok"]
        /\ FilterOf(MirrorTB(input)) = [out |-> MirrorTB(output), status |-> "Ok"]

\* C12 as stated: the call of scenario S1 (5x1 input [10, 20, 30, 40, 50], radius 1,
\* alpha 2) of alpha_trimmed_mean_filter ends by returning [10, 20, 30, 40, 50].
S1MeanIsInput ==
    (op = "mean" /\ input = S1Image /\ radius = 1 /\ alpha = 2
        /\ pc \in {"done", "panic", "unspecified"}) =>
        (pc = "done" /\ output.data = <<10, 20, 30, 40, 50>>)

\* C12 amended: that call neither panics nor takes an unspecified step, and it returns
\* [13, 20, 30, 40, 47]: the 3 x 3 clamp-to-edge window of a pixel of the single row holds
\* each of its three columns three times, and the edge column six times.
S1MeanOutput ==
    (op = "mean" /\ input = S1Image /\ radius = 1 /\ alpha = 2) =>
        /\ pc \notin {"panic", "unspecified"}
        /\ pc = "done" => output = [S1Image EXCEPT !.data = <<13, 20, 30, 40, 47>>]

S1MeanWitness ==
    /\ op = "mean" /\ input = S1Image /\ radius = 1 /\ alpha = 2
    /\ pc = "done" /\ result = "Ok"
    /\ output.data = <<13, 20, 30, 40, 47>>

\* C13 as stated: the call of scenario S4 (7x7, a single 255 at the centre, radius 2,
\* alpha 2) of alpha_trimmed_mean_filter ends by returning an image whose centre pixel is 11.
S4CentreIsEleven ==
    (op = "mean" /\ input = S4Image /\ radius = 2 /\ alpha = 2
        /\ pc \in {"done", "panic", "unspecified"}) =>
        (pc = "done" /\ Sample(output, 3, 3, 0) = 11)

\* C13 amended: that call neither panics nor takes an unspecified step, and the centre pixel
\* of the image it returns is 0: the single 255 is the one sample trimmed from above.
S4CentreIsZero ==
    (op = "mean" /\ input = S4Image /\ radius = 2 /\ alpha = 2) =>
        /\ pc \notin {"panic", "unspecified"}
        /\ pc = "done" => Sample(output, 3, 3, 0) = 0

S4CentreWitness ==
    /\ op = "mean" /\ input = S4Image /\ radius = 2 /\ alpha = 2
    /\ pc = "done" /\ result = "Ok"
    /\ Sample(output, 3, 3, 0) = 0

\* C14 as stated: the call of scenario S3 (a 4x4 checkerboard over {0, 255}, radius 1) of
\* median_filter ends by returning a uniform image: all 0 or all 255.
S3Uniform ==
    (op = "median" /\ input \in {Checkerboard(0), Checkerboard(255)} /\ radius = 1
        /\ pc \in {"done", "panic"}) =>
        /\ pc = "done"
        /\ \/ \A q \in Pixels(input) : Sample(output, q[1], q[2], 0) = 0
           \/ \A q \in Pixels(input) : Sample(output, q[1], q[2], 0) = 255

\* C14 amended: that call does not panic and returns 2 x 2 blocks: pixel (x, y) holds the
\* value of the corner pixel when (x div 2) + (y div 2) is even and the other value otherwise.
S3Blocks ==
    (op = "median" /\ input \in {Checkerboard(0), Checkerboard(255)} /\ radius = 1) =>
        /\ pc # "panic"
        /\ pc = "done" =>
            \A q \in Pixels(input) :
                Sample(output, q[1], q[2], 0) =
                    IF ((q[1] \div 2) + (q[2] \div 2)) % 2 = 0
                    THEN input.data[1] ELSE 255 - input.data[1]

S3BlocksWitness ==
    /\ op = "median" /\ input = Checkerboard(255) /\ radius = 1
    /\ pc = "done" /\ result = "Ok"
    /\ Sample(output, 0, 0, 0) = 255 /\ Sample(output, 1, 1, 0) = 255
    /\ Sample(output, 2, 1, 0) = 0 /\ Sample(output, 3, 3, 0) = 255

\* C15: after the priming and after every completed row step of either filter, for every
\* channel, strip column i and value v, get_count(v, i) is the number of samples equal to v in
\* the clamp-to-edge window centred at (x + i, y), so it is not negative and the counts of a
\* column add up to size^2; between the entering and the leaving update no count is negative.
PartialHistogramInvariant ==
    /\ (pc \in {"add", "scan"}) =>
          \A c \in 1..Len(histograms) : \A i \in 0..(NCols - 1) :
              /\ \A v \in KeysOf(histograms[c].data, i, c - 1) :
                    /\ GetCount(histograms[c].data, v, i)
                           = WindowCount(input, radius, x + i, WindowRow, c - 1, v)
                    /\ GetCount(histograms[c].data, v, i) >= 0
              /\ SumCounts(histograms[c].data, i, KeysOf(histograms[c].data, i, c - 1))
                     = (2 * radius + 1) * (2 * radius + 1)
    /\ (pc = "remove") =>
          \A c \in 1..Len(histograms) : \A i \in 0..(NCols - 1) :
              \A v \in KeysOf(histograms[c].data, i, c - 1) :
                  GetCount(histograms[c].data, v, i) >= 0

PartialHistogramWitness ==
    /\ op = "median" /\ input = S4Image /\ radius = 1 /\ x = 0 /\ pc = "scan" /\ y = 3
    /\ GetCount(histograms[1].data, 255, 2) = 1
    /\ GetCount(histograms[1].data, 255, 0) = 0
    /\ Bin(histograms[1].data.data[0], 255) = -1

\* C16: in median_filter, once row 0 is primed, after every entering-row update, leaving-row
\* update and row scan, for every channel and strip column i, sums[i] is the number of samples
\* of the current C[i] strictly below pivots[i]; and after the scan of a row, pivots[i] is the
\* median of the window centred at (x + i, row) and the value set_pixel wrote for strip column
\* x + i at that row.
MedianEngineInvariant ==
    (op = "median" /\ pc \in {"add", "remove", "scan"}) =>
        \A c \in 1..Len(histograms) : \A i \in 0..(NCols - 1) :
            /\ histograms[c].sums[i + 1] =
                   SumCounts(histograms[c].data, i,
                             {k \in DOMAIN histograms[c].data.data[histograms[c].data.n_half]
                                        \cup DOMAIN histograms[c].data.data[i] :
                                 k < histograms[c].pivots[i + 1]})
            /\ (pc = "add") =>
                   /\ histograms[c].pivots[i + 1] = BruteMedian(input, radius, x + i, y - 1, c - 1)
                   /\ \E w \in writes :
                          w[1] = x + i /\ w[3] = y - 1 /\ w[4][c] = histograms[c].pivots[i + 1]

MedianEngineWitness ==
    /\ op = "median" /\ input = Checkerboard(0) /\ radius = 1 /\ pc = "add" /\ y = 3
    /\ histograms[1].pivots[1] = 255 /\ histograms[1].sums[1] = 4
    /\ histograms[1].pivots[3] = 0 /\ histograms[1].sums[3] = 0

\* C17: after init_cols_mean, for every valid alpha, channel and strip column i, lower[i] is
\* the trim smallest samples of the window centred at (x + i, 0) in ascending order, upper[i]
\* the trim largest in descending order, and sums[i] the sum of the size^2 - alpha samples left.
MeanPrimingInvariant ==
    (op = "mean" /\ pc = "add" /\ y = 1) =>
        \A c \in 1..Len(histograms) : \A i \in 0..(NCols - 1) :
            LET w == SortedWindow(input, radius, x + i, 0, c - 1)
                n == (2 * radius + 1) * (2 * radius + 1)
                trim == alpha \div 2
            IN  /\ histograms[c].lower[i + 1] = [k \in 1..trim |-> w[k]]
                /\ histograms[c].upper[i + 1] = [k \in 1..trim |-> w[n + 1 - k]]
                /\ histograms[c].sums[i + 1] = SumOf(w, trim + 1, n - trim)

\* C18: after every completed row step of alpha_trimmed_mean_filter (add_row_mean, then
\* remove_row_mean), for every channel and strip column i, lower[i] and upper[i] hold trim
\* entries each, lower[i] ascending and upper[i] descending, no entry of lower[i] is above and
\* no entry of upper[i] below a sample of the middle set, and sums[i] is the sum of the middle
\* set of the window centred at (x + i, y): with w the sorted window, lower[i] is its first
\* trim samples, upper[i] its last trim samples from the top down, sums[i] the sum of the rest.
MeanSteadyInvariant ==
    (op = "mean" /\ pc = "scan") =>
        \A c \in 1..Len(histograms) : \A i \in 0..(NCols - 1) :
            LET w == SortedWindow(input, radius, x + i, y, c - 1)
                n == (2 * radius + 1) * (2 * radius + 1)
                trim == alpha \div 2
            IN  /\ Len(histograms[c].lower[i + 1]) = trim
                /\ Len(histograms[c].upper[i + 1]) = trim
                /\ \A k \in 1..trim : histograms[c].lower[i + 1][k] = w[k]
                /\ \A k \in 1..trim : histograms[c].upper[i + 1][k] = w[n + 1 - k]
                /\ histograms[c].sums[i + 1] = SumOf(w, trim + 1, n - trim)

\* What C19 says of the removal of a sample val above the upper pivot up from column n of the
\* engine h: upper[n] is searched for val; on a hit that entry is removed and upper[n] refilled
\* by get_next_upper, val not debited from sums[n]; on a miss val is debited from sums[n].
UpperRemovalClaimed(h, n, val, up, upper_count) ==
    IF \E k \in 1..Len(h.upper[n + 1]) : h.upper[n + 1][k] = val
    THEN GetNextUpper([h EXCEPT !.upper[n + 1] =
                          RemoveAt(@, (CHOOSE k \in 1..Len(h.upper[n + 1]) : h.upper[n + 1][k] = val) - 1)],
                      n, upper_count, up)
    ELSE [h EXCEPT !.sums[n + 1] = @ - val]

\* the removal of sample i of column n took the engine from h to after as C19 says
UpperRemovalAt(h, after, p, c, n, i) ==
    (PivotInBounds(h, n) /\ Px(p, i, c) > h.upper[n + 1][h.trim]) =>
        after = UpperRemovalClaimed(h, n, Px(p, i, c), h.upper[n + 1][h.trim],
                                    UpperCount(h, p, c, n, i, h.lower[n + 1][h.trim],
                                               h.upper[n + 1][h.trim]))

\* the removal loop of MeanHist::update from sample k on, each sample held against C19
RECURSIVE UpperRemovalFrom(_, _, _, _)
UpperRemovalStep(h, after, p, c, k) ==
    /\ UpperRemovalAt(h, after, p, c, k \div h.data.size, (k \div h.data.size) + (k % h.data.size))
    /\ UpperRemovalFrom(after, p, c, k + 1)

UpperRemovalFrom(h, p, c, k) ==
    IF k >= h.data.n_cols * h.data.size \/ h.panicked \/ h.unspecified THEN TRUE
    ELSE UpperRemovalStep(h, MeanSample(h, p, c, FALSE, k \div h.data.size,
                                        (k \div h.data.size) + (k % h.data.size)),
                          p, c, k)

\* C19: in the remove_row_mean about to run, every sample strictly greater than the upper
\* pivot of its column is removed by searching upper[n]: on a hit the entry leaves upper[n],
\* which get_next_upper refills, and sums[n] is not debited by val; on a miss sums[n] is
\* debited by val.
UpperRemovalMirrorsLower ==
    (op = "mean" /\ pc = "remove") =>
        \A c \in 1..Len(histograms) :
            UpperRemovalFrom(MeanData(histograms[c],
                                      RowSlice(input, radius, NCols, x, JOut(y, radius, input.height)),
                                      c - 1, FALSE),
                             RowSlice(input, radius, NCols, x, JOut(y, radius, input.height)),
                             c - 1, 0)

PivotScanSelectsOne ==
    (op = "median" /\ pc = "scan") =>
        \A i \in 0..(NCols - 1) :
            /\ \A c \in 1..Len(histograms) :
                   /\ PivotScan(histograms[c], i, Center(radius)).found
                   /\ IF histograms[c].sums[i + 1] < Center(radius)
                      THEN PivotScan(histograms[c], i, Center(radius)).key
                               \in histograms[c].pivots[i + 1]..MaxKey
                      ELSE /\ histograms[c].pivots[i + 1] > 0
                           /\ PivotScan(histograms[c], i, Center(radius)).key
                                  \in 0..(histograms[c].pivots[i + 1] - 1)
                   /\ PivotScan(histograms[c], i, Center(radius)).key
                          = BruteMedian(input, radius, x + i, y, c - 1)
            /\ Len(POut([c \in 1..Len(histograms) |->
                            PivotScan(histograms[c], i, Center(radius))], 1)) = input.channels
            /\ \A c \in 1..Len(histograms) :
                   SetPivotsMed(histograms,
                                POut([d \in 1..Len(histograms) |->
                                         PivotScan(histograms[d], i, Center(radius))], 1),
                                i)[c].pivots[i + 1]
                       = PivotScan(histograms[c], i, Center(radius)).key

PivotScanWitness ==
    /\ op = "median" /\ pc = "scan" /\ radius = 0 /\ y = 1
    /\ input = [width |-> 1, height |-> 2, channels |-> 2, data |-> <<0, 2, 2, 0>>]
    /\ histograms[1].pivots[1] = 0 /\ histograms[1].sums[1] < Center(0)
    /\ PivotScan(histograms[1], 0, Center(0)).key = 2
    /\ histograms[2].pivots[1] = 2 /\ histograms[2].sums[1] >= Center(0)
    /\ PivotScan(histograms[2], 0, Center(0)).key = 0

====
